---- MODULE Spec2Model ----
(***************************************************************************)
(* Model of KISSlicerGCodeFile (slicer_kisslicer.py): layer segmentation   *)
(* (parse_layers), the header pass (parse_header), the purge-tower slot    *)
(* allocation (filter_layers) and the orchestration in process.            *)
(*                                                                         *)
(* Heights and thicknesses are held in tenths of a millimetre, so that the *)
(* provisional 0.2 of the first layer is the integer 2 and the integer     *)
(* height n produced by int() on a marker is 10 * n.                       *)
(***************************************************************************)
EXTENDS Integers, Sequences, FiniteSets, TLC

VARIABLES
    pc,               \* position of the run: the phase about to execute
    error,            \* the exception that ended the run, "" if none
    lines,            \* the raw input lines handed to parse_layers
    pos,              \* parse_layers: index of the next input line
    current_layer,    \* parse_layers: the accumulator
    layer_num,        \* parse_layers: the layer counter
    layers,           \* self.layers
    tools,            \* len(self.tools)
    hpos,             \* parse_header: index of the next line of the scan
    current_tool,     \* parse_header: tool index of the material block
    z_offset,         \* parse_header: local z_offset
    version,          \* self.version, <<>> for None
    config,           \* the global fields parse_header sets, by key
    extruders,        \* self.extruders: tool index -> Extruder
    layer_data,       \* filter_layers: z -> the bucket's layers (indices)
    bucket_slots,     \* filter_layers: layer_data[z]['slots'], once recorded
    zs,               \* filter_layers: the list of heights being scanned
    zi,               \* filter_layers: index of the next height in zs
    slots,            \* filter_layers: running slots value
    count,            \* filter_layers: running deficit counter
    max_slots,        \* self.max_slots
    filtered_layers,  \* self.filtered_layers (indices into self.layers)
    tower_added,      \* find_tower_position/add_switch_raft/add_tool_change_gcode ran
    saved             \* save_new_file ran

vars == <<pc, error, lines, pos, current_layer, layer_num, layers, tools,
          hpos, current_tool, z_offset, version, config, extruders,
          layer_data, bucket_slots, zs, zi, slots, count,
          max_slots, filtered_layers, tower_added, saved>>

(***************************************************************************)
(* Bounds of the checked inputs.                                           *)
(***************************************************************************)
MaxLines == 4        \* parse_layers: longest input line sequence
MaxFree == 3         \* filter_layers: longest layer sequence with free heights
MaxZ == 3            \* largest integer height of a marker
MaxHeights == 4      \* filter_layers: most heights of a print-order input
MaxPerHeight == 2    \* filter_layers: most layers sharing a height there
MaxHdrLines == 3     \* process: longest input line sequence
MaxTools == 2        \* process: largest number of configured tools

None == -1           \* Python's None for integer-valued fields

(***************************************************************************)
(* Lines.  A raw line is a record                                          *)
(*   cmd  the command token, "" if the line has none                       *)
(*   key  the pattern its annotation contains, "" if it has no annotation  *)
(*   num  the integer its annotation captures (integer part of z, or the   *)
(*        extruder number of a material block line)                        *)
(*   val  the value its annotation carries (thickness, field value)        *)
(*   ok   the text converts: int() of the z text succeeds (no decimal      *)
(*        part), float()/int() of the field value succeeds, the regular    *)
(*        expression matches at the position re.match looks at             *)
(***************************************************************************)
Line(cmd, key, num, val, ok) ==
    [cmd |-> cmd, key |-> key, num |-> num, val |-> val, ok |-> ok]

CmdLine(cmd) == Line(cmd, "", 0, 0, TRUE)
Annot(key, num, val, ok) == Line("", key, num, val, ok)
Marker(z, th) == Annot("BEGIN_LAYER_OBJECT", z, th, TRUE)
MarkerDecimal(z, th) == Annot("BEGIN_LAYER_OBJECT", z, th, FALSE)

\* gcode.read_gcode_line: the (cmd, comment) pair of a raw line
read_gcode_line(line) ==
    <<line.cmd, [key |-> line.key, num |-> line.num, val |-> line.val, ok |-> line.ok]>>

\* gcode.is_tool_change: the tool index a command selects, None otherwise
is_tool_change(cmd) ==
    CASE cmd = "T0" -> 0
      [] cmd = "T1" -> 1
      [] OTHER -> None

(***************************************************************************)
(* Layers.                                                                 *)
(***************************************************************************)
ACT_SWITCH == "SWITCH"
ACT_INFILL == "INFILL"
ACT_PASS == "PASS"
ACT_UNSET == "UNSET"   \* the action of a layer before allocation

ProvisionalZ == 2      \* FirstLayer(1, 0.2, 0.2): 0.2 in tenths

\* Layer(num, z, height) and FirstLayer(num, z, height)
Layer(num, z, height) ==
    [num |-> num, z |-> z, height |-> height, lines |-> <<>>,
     action |-> ACT_UNSET, tower_slots |-> 0, first |-> FALSE,
     start_gcode_end |-> None,
     outer_perimeter_speed |-> None, outer_perimeter_feedrate |-> None]

FirstLayer(num, z, height) ==
    [Layer(num, z, height) EXCEPT !.first = TRUE]

\* Layer.add_line
add_line(layer, cmd, comment) ==
    [layer EXCEPT !.lines = Append(@, <<cmd, comment>>)]

\* Layer.has_tool_changes
has_tool_changes(layer) ==
    \E i \in 1..Len(layer.lines) :
        /\ layer.lines[i][1] # ""
        /\ is_tool_change(layer.lines[i][1]) # None

(***************************************************************************)
(* parse_layers.                                                           *)
(***************************************************************************)
\* LAYER_START_RE.match(line) in check_layer_change
LayerStartMatches(comment) == comment.key = "BEGIN_LAYER_OBJECT"

\* int(m.groups()[0]) raises ValueError on a z text with a decimal part
IntRaises(comment) == ~comment.ok

\* check_layer_change: (int(z text), float(thickness text)), in tenths
check_layer_change(comment) == <<10 * comment.num, comment.val>>

\* IsFirstMarker without the test of the counter
IsFirstMarker_numOnly(cl, ln) == cl.num = 1

\* the test that decides whether a marker fills in the first layer
IsFirstMarker(cl, ln) == cl.num = 1 /\ ln = 0

\* the state of the loop of parse_layers
PLInit == [current_layer |-> FirstLayer(1, ProvisionalZ, ProvisionalZ),
           layer_num |-> 0, layers |-> <<>>, error |-> ""]

\* OnLayerChange without line 192: the closed layer is not stored
OnLayerChange_dropClosed(st, ret) ==
    IF st.current_layer.num = 1 /\ st.layer_num = 0
    THEN [st EXCEPT !.current_layer.z = ret[1],
                    !.current_layer.height = ret[2],
                    !.layer_num = @ + 1]
    ELSE [st EXCEPT !.layer_num = @ + 1,
                    !.current_layer = Layer(st.layer_num + 1, ret[1], ret[2])]

\* what a marker does to the state of the loop (lines 185-194)
OnLayerChange(st, ret) ==
    IF IsFirstMarker(st.current_layer, st.layer_num)
    THEN [st EXCEPT !.current_layer.z = ret[1],
                    !.current_layer.height = ret[2],
                    !.layer_num = @ + 1]
    ELSE [st EXCEPT !.layers = Append(@, st.current_layer),
                    !.layer_num = @ + 1,
                    !.current_layer = Layer(st.layer_num + 1, ret[1], ret[2])]

\* one iteration of the loop of parse_layers (lines 180-195)
PLStep(st, line) ==
    LET classified == read_gcode_line(line)
        cmd == classified[1]
        comment == classified[2]
        isMarker == comment.key # "" /\ LayerStartMatches(comment)
    IN  IF isMarker /\ IntRaises(comment)
        THEN [st EXCEPT !.error = "ValueError: int"]
        ELSE LET st1 == IF isMarker
                        THEN OnLayerChange(st, check_layer_change(comment))
                        ELSE st
             IN  [st1 EXCEPT !.current_layer = add_line(@, cmd, comment)]

\* the statement after the loop (line 198)
PLFinish(st) == [st EXCEPT !.layers = Append(@, st.current_layer)]

RECURSIVE PLFold(_, _, _)
PLFold(st, ls, i) ==
    IF i > Len(ls) THEN PLFinish(st)
    ELSE LET st1 == PLStep(st, ls[i])
         IN  IF st1.error # "" THEN st1 ELSE PLFold(st1, ls, i + 1)

\* parse_layers as a whole: the layers, or the error it raises
ParseLayers(ls) == PLFold(PLInit, ls, 1)

(***************************************************************************)
(* filter_layers.                                                          *)
(***************************************************************************)
InitialSlots == 1      \* slots = 1
StallThreshold == 3    \* if count >= 3

RECURSIVE SortedKeys(_)
\* sorted(layer_data.keys())
SortedKeys(S) ==
    IF S = {} THEN <<>>
    ELSE LET m == CHOOSE x \in S : \A y \in S : x <= y
         IN  <<m>> \o SortedKeys(S \ {m})

\* list.reverse()
Reverse(s) == [i \in 1..Len(s) |-> s[Len(s) + 1 - i]]

\* step 1: the layers (by index into self.layers) of each height, in
\* insertion order
GroupByZ(ls) ==
    [z \in {ls[i].z : i \in 1..Len(ls)} |->
        LET SameZ(i) == ls[i].z = z
        IN  SelectSeq([i \in 1..Len(ls) |-> i], SameZ)]

\* lrs: the sum of has_tool_changes() over the bucket
lrs(ls, bucket) ==
    Cardinality({k \in 1..Len(bucket) : has_tool_changes(ls[bucket[k]])})

\* Deficit with != for >
Deficit_notEqual(required, sl) == required # sl

\* if lrs > slots
Deficit(required, sl) == required > sl

\* StallReached one height early
StallReached_early(cn) == cn >= 2

\* if count >= 3
StallReached(cn) == cn >= StallThreshold

\* ScanStep with the two assignments of lines 253-254 in the other order
\* and slots taken from count
ScanStep_countFirst(sl, cn, required) ==
    LET cn1 == IF required > sl THEN cn + 1 ELSE cn
    IN  IF cn1 >= 3
        THEN [slots |-> 0, count |-> 0]
        ELSE [slots |-> sl, count |-> cn1]

\* ScanStep without line 254: count is not reset when slots is raised
ScanStep_noReset(sl, cn, required) ==
    LET cn1 == IF required > sl THEN cn + 1 ELSE cn
    IN  IF cn1 >= 3
        THEN [slots |-> required, count |-> cn1]
        ELSE [slots |-> sl, count |-> cn1]

\* ScanStep without the hysteresis: slots follows the height's requirement
ScanStep_noHysteresis(sl, cn, required) == [slots |-> required, count |-> 0]

\* one iteration of the descending scan (lines 246-254): the new slots, count
ScanStep(sl, cn, required) ==
    LET cn1 == IF Deficit(required, sl) THEN cn + 1 ELSE cn
    IN  IF StallReached(cn1)
        THEN [slots |-> required, count |-> 0]
        ELSE [slots |-> sl, count |-> cn1]

RECURSIVE FirstPass(_, _, _, _)
RECURSIVE FirstPass_noCount(_, _, _, _)
RECURSIVE FirstPass_switchOnly(_, _, _, _)
\* FirstPass without line 273: slots_filled stays 0
FirstPass_noCount(ls, bucket, k, cap) ==
    IF k > Len(bucket) THEN [layers |-> ls, slots_filled |-> 0]
    ELSE LET i == bucket[k]
             ls1 == [ls EXCEPT ![i].tower_slots = cap,
                               ![i].action = IF has_tool_changes(ls[i])
                                             THEN ACT_SWITCH ELSE @]
         IN  FirstPass_noCount(ls1, bucket, k + 1, cap)

\* FirstPass with line 270 inside the if: tower_slots only on SWITCH layers
FirstPass_switchOnly(ls, bucket, k, cap) ==
    IF k > Len(bucket) THEN [layers |-> ls, slots_filled |-> 0]
    ELSE LET i == bucket[k]
             ls1 == IF has_tool_changes(ls[i])
                    THEN [ls EXCEPT ![i].tower_slots = cap,
                                    ![i].action = ACT_SWITCH]
                    ELSE ls
             rest == FirstPass_switchOnly(ls1, bucket, k + 1, cap)
         IN  [rest EXCEPT !.slots_filled =
                  @ + (IF has_tool_changes(ls[i]) THEN 1 ELSE 0)]

\* first loop over a bucket (lines 269-273): the layers and slots_filled
FirstPass(ls, bucket, k, cap) ==
    IF k > Len(bucket) THEN [layers |-> ls, slots_filled |-> 0]
    ELSE LET i == bucket[k]
             ls1 == [ls EXCEPT ![i].tower_slots = cap,
                               ![i].action = IF has_tool_changes(ls[i])
                                             THEN ACT_SWITCH ELSE @]
             rest == FirstPass(ls1, bucket, k + 1, cap)
         IN  [rest EXCEPT !.slots_filled =
                  @ + (IF has_tool_changes(ls[i]) THEN 1 ELSE 0)]

\* IsOtherLayer without the test
IsOtherLayer_all(l) == TRUE

\* if not l.has_tool_changes()
IsOtherLayer(l) == ~has_tool_changes(l)

\* SlotFree with <= for <
SlotFree_inclusive(filled, cap) == filled <= cap

\* if slots_filled < layer_data[z]['slots']
SlotFree(filled, cap) == filled < cap

RECURSIVE SecondPass(_, _, _, _, _)
\* second loop over a bucket (lines 276-282)
SecondPass(ls, bucket, k, filled, cap) ==
    IF k > Len(bucket) THEN ls
    ELSE LET i == bucket[k]
         IN  IF IsOtherLayer(ls[i])
             THEN IF SlotFree(filled, cap)
                  THEN SecondPass([ls EXCEPT ![i].action = ACT_INFILL],
                                  bucket, k + 1, filled + 1, cap)
                  ELSE SecondPass([ls EXCEPT ![i].action = ACT_PASS],
                                  bucket, k + 1, filled, cap)
             ELSE SecondPass(ls, bucket, k + 1, filled, cap)

\* the body of the tagging loop for one height (lines 264-282)
TagBucket(ls, bucket, cap) ==
    IF cap = 0 THEN ls
    ELSE LET fp == FirstPass(ls, bucket, 1, cap)
         IN  SecondPass(fp.layers, bucket, 1, fp.slots_filled, cap)

RECURSIVE Flatten(_, _, _)
\* step 3: the buckets' layers, in the order of zs
Flatten(ld, zseq, k) ==
    IF k > Len(zseq) THEN <<>>
    ELSE ld[zseq[k]] \o Flatten(ld, zseq, k + 1)

RECURSIVE InsertByNum(_, _, _)
InsertByNum(ls, sorted, x) ==
    IF sorted = <<>> THEN <<x>>
    ELSE IF ls[x].num < ls[Head(sorted)].num
         THEN <<x>> \o sorted
         ELSE <<Head(sorted)>> \o InsertByNum(ls, Tail(sorted), x)

RECURSIVE SortedByNumFrom(_, _, _, _)
SortedByNumFrom(ls, seq, k, acc) ==
    IF k > Len(seq) THEN acc
    ELSE SortedByNumFrom(ls, seq, k + 1, InsertByNum(ls, acc, seq[k]))

\* SortedByNum without the sort
SortedByNum_unsorted(ls, seq) == seq

\* sorted(layers, key=lambda x: x.num): a stable sort
SortedByNum(ls, seq) == SortedByNumFrom(ls, seq, 1, <<>>)

RECURSIVE ConcatAll(_)
ConcatAll(ss) == IF ss = <<>> THEN <<>> ELSE Head(ss) \o ConcatAll(Tail(ss))

\* the lines of all layers, in layer order
AllLines(ls) == ConcatAll([i \in 1..Len(ls) |-> ls[i].lines])

(***************************************************************************)
(* State of a run before any phase has executed.                           *)
(***************************************************************************)
GlobalFields == {"stroke_x", "stroke_y", "origin_offset_x", "origin_offset_y",
                 "machine_type", "travel_xy_speed", "travel_z_speed",
                 "first_layer_speed", "outer_perimeter_speed"}

\* __init__, and the locals of the phases before they are assigned
Constructed(ls) ==
    /\ lines = ls
    /\ error = ""
    /\ pos = 1
    /\ current_layer = PLInit.current_layer
    /\ layer_num = PLInit.layer_num
    /\ layers = PLInit.layers
    /\ tools = 0
    /\ hpos = 1
    /\ current_tool = None
    /\ z_offset = 0
    /\ version = <<>>
    /\ config = [f \in GlobalFields |-> None]
    /\ extruders = <<>>
    /\ layer_data = <<>>
    /\ bucket_slots = <<>>
    /\ zs = <<>>
    /\ zi = 1
    /\ slots = None
    /\ count = None
    /\ max_slots = None
    /\ filtered_layers = <<>>
    /\ tower_added = FALSE
    /\ saved = FALSE

(***************************************************************************)
(* parse_layers, one input line per step.                                  *)
(***************************************************************************)
PLState == [current_layer |-> current_layer, layer_num |-> layer_num,
            layers |-> layers, error |-> ""]

HeaderVars == <<hpos, current_tool, z_offset, version, config, extruders>>
FilterVars == <<layer_data, bucket_slots, zs, zi, slots, count, max_slots,
                filtered_layers>>
OutputVars == <<tower_added, saved>>

\* an iteration of the loop that completes (lines 180-195)
parse_layers_line ==
    /\ pc = "parse_layers"
    /\ pos <= Len(lines)
    /\ LET st == PLStep(PLState, lines[pos])
       IN  /\ st.error = ""
           /\ current_layer' = st.current_layer
           /\ layer_num' = st.layer_num
           /\ layers' = st.layers
    /\ pos' = pos + 1
    /\ UNCHANGED <<pc, error, lines, tools, HeaderVars, FilterVars, OutputVars>>

\* an iteration in which check_layer_change raises (line 209)
parse_layers_raise ==
    /\ pc = "parse_layers"
    /\ pos <= Len(lines)
    /\ LET st == PLStep(PLState, lines[pos])
       IN  /\ st.error # ""
           /\ error' = st.error
    /\ pc' = "aborted"
    /\ UNCHANGED <<lines, pos, current_layer, layer_num, layers, tools,
                   HeaderVars, FilterVars, OutputVars>>

\* the end of the loop (line 198)
parse_layers_end ==
    /\ pc = "parse_layers"
    /\ pos > Len(lines)
    /\ layers' = PLFinish(PLState).layers
    /\ pc' = "parse_header"
    /\ UNCHANGED <<error, lines, pos, current_layer, layer_num, tools,
                   HeaderVars, FilterVars, OutputVars>>

(***************************************************************************)
(* filter_layers, one height per step.                                     *)
(***************************************************************************)
ParseVars == <<lines, pos, current_layer, layer_num>>

\* steps 1 and the set-up of the scan (lines 228-244)
fl_group ==
    /\ pc = "filter_layers"
    /\ layer_data' = GroupByZ(layers)
    /\ zs' = Reverse(SortedKeys(DOMAIN GroupByZ(layers)))
    /\ slots' = InitialSlots
    /\ count' = 0
    /\ zi' = 1
    /\ bucket_slots' = <<>>
    /\ pc' = "fl_scan"
    /\ UNCHANGED <<error, ParseVars, layers, tools, HeaderVars, max_slots,
                   filtered_layers, OutputVars>>

\* one height of the descending scan (lines 245-255)
fl_scan ==
    /\ pc = "fl_scan"
    /\ zi <= Len(zs)
    /\ LET z == zs[zi]
           st == ScanStep(slots, count, lrs(layers, layer_data[z]))
       IN  /\ slots' = st.slots
           /\ count' = st.count
           /\ bucket_slots' = [h \in DOMAIN bucket_slots \cup {z} |->
                                 IF h = z THEN st.slots ELSE bucket_slots[h]]
    /\ zi' = zi + 1
    /\ UNCHANGED <<pc, error, ParseVars, layers, tools, HeaderVars, layer_data,
                   zs, max_slots, filtered_layers, OutputVars>>

\* after the scan (lines 257-261)
fl_scan_end ==
    /\ pc = "fl_scan"
    /\ zi > Len(zs)
    /\ max_slots' = slots
    /\ zs' = Reverse(zs)
    /\ zi' = 1
    /\ pc' = "fl_tag"
    /\ UNCHANGED <<error, ParseVars, layers, tools, HeaderVars, layer_data,
                   bucket_slots, slots, count, filtered_layers, OutputVars>>

\* one height of the tagging loop (lines 262-282)
fl_tag ==
    /\ pc = "fl_tag"
    /\ zi <= Len(zs)
    /\ layers' = TagBucket(layers, layer_data[zs[zi]], bucket_slots[zs[zi]])
    /\ zi' = zi + 1
    /\ UNCHANGED <<pc, error, ParseVars, tools, HeaderVars, layer_data,
                   bucket_slots, zs, slots, count, max_slots, filtered_layers,
                   OutputVars>>

\* step 3 (lines 284-289)
fl_pack ==
    /\ pc = "fl_tag"
    /\ zi > Len(zs)
    /\ filtered_layers' = SortedByNum(layers, Flatten(layer_data, zs, 1))
    /\ pc' = "parse_perimeter_rates"
    /\ UNCHANGED <<error, ParseVars, layers, tools, HeaderVars, layer_data,
                   bucket_slots, zs, zi, slots, count, max_slots, OutputVars>>

(***************************************************************************)
(* parse_header, one line of the scan per step.                            *)
(***************************************************************************)
\* Extruder(t)
Extruder(t) ==
    [id |-> t, retract |-> None, retract_speed |-> None, z_hop |-> None,
     wipe |-> None, feed_rate_multiplier |-> None, filament_type |-> None,
     z_offset |-> None]

\* the patterns of the global fields: <<pattern, field, factor>>
GlobalKeys ==
    {<<"bed_size_x_mm", "stroke_x", 1>>,
     <<"bed_size_y_mm", "stroke_y", 1>>,
     <<"bed_offset_x_mm", "origin_offset_x", 1>>,
     <<"bed_offset_y_mm", "origin_offset_y", 1>>,
     <<"round_bed", "machine_type", 1>>,
     <<"travel_speed_mm_per_s", "travel_xy_speed", 60>>,
     <<"travel_speed_mm_per_s", "travel_z_speed", 60>>,
     <<"first_layer_speed_mm_per_s", "first_layer_speed", 60>>,
     <<"Perimeter Speed", "outer_perimeter_speed", 60>>}

\* the patterns of the per-tool fields: <<pattern, field, factor, converted>>
ToolKeys ==
    {<<"destring_length", "retract", 1, TRUE>>,
     <<"destring_speed_mm_per_s", "retract_speed", 60, TRUE>>,
     <<"Z_lift_mm", "z_hop", 1, TRUE>>,
     <<"wipe_mm", "wipe", 1, TRUE>>,
     <<"flowrate_tweak", "feed_rate_multiplier", 1, TRUE>>,
     <<"g_code_matl", "filament_type", 1, FALSE>>}

IsGlobalKey(key) == \E t \in GlobalKeys : t[1] = key
IsToolKey(key) == \E t \in ToolKeys : t[1] = key
ToolKey(key) == CHOOSE t \in ToolKeys : t[1] = key

\* float(...) or int(...) of the value raises ValueError
ValueRaises(comment) == ~comment.ok

\* the VERSION_RE.match / int() of the version line fails (caught, line 76)
VersionRaises(comment) == ~comment.ok

\* ext_re.match(comment) returns None, so m.groups() raises (lines 118-119)
ExtReRaises(comment) == ~comment.ok

\* the truth value of current_tool in "current_tool and ..."
Truthy(ct) == ct # None /\ ct # 0

\* FirmwareAccepted without the test
FirmwareAccepted_any(comment) == TRUE

\* comment.split(b' = ')[1] != b"1" is false
FirmwareAccepted(comment) == comment.val = 1

HRaise(st, e) == [st EXCEPT !.error = e]

\* the body of the loop of parse_header for one line (lines 67-148)
HStep(st, cmd, comment) ==
    LET key == comment.key
    IN  IF cmd # "" THEN st
        ELSE IF key = "version"
        THEN IF VersionRaises(comment) THEN st
             ELSE [st EXCEPT !.version = <<comment.num, comment.val>>]
        ELSE IF IsGlobalKey(key)
        THEN IF ValueRaises(comment) THEN HRaise(st, "ValueError: value")
             ELSE [st EXCEPT !.config =
                      [f \in GlobalFields |->
                          IF \E t \in GlobalKeys : t[1] = key /\ t[2] = f
                          THEN comment.val *
                               (CHOOSE t \in GlobalKeys : t[1] = key /\ t[2] = f)[3]
                          ELSE st.config[f]]]
        ELSE IF key = "bed_offset_z_mm"
        THEN IF ValueRaises(comment) THEN HRaise(st, "ValueError: value")
             ELSE [st EXCEPT !.z_offset = comment.val]
        ELSE IF key = "num_extruders"
        THEN IF ValueRaises(comment) THEN HRaise(st, "ValueError: value")
             ELSE [st EXCEPT !.extruders =
                      [t \in DOMAIN st.extruders \cup 0..(comment.val - 1) |->
                          IF t \in DOMAIN st.extruders
                          THEN st.extruders[t] ELSE Extruder(t)]]
        ELSE IF key = "Material Settings for Extruder"
        THEN IF ExtReRaises(comment) THEN HRaise(st, "AttributeError")
             ELSE [st EXCEPT !.current_tool = comment.num - 1]
        ELSE IF Truthy(st.current_tool) /\ IsToolKey(key)
        THEN IF ToolKey(key)[4] /\ ValueRaises(comment)
             THEN HRaise(st, "ValueError: value")
             ELSE IF st.current_tool \notin DOMAIN st.extruders
             THEN HRaise(st, "KeyError")
             ELSE [st EXCEPT !.extruders[st.current_tool][ToolKey(key)[2]] =
                      comment.val * ToolKey(key)[3]]
        ELSE IF key = "firmware_type"
        THEN IF FirmwareAccepted(comment) THEN st
             ELSE HRaise(st, "ValueError: relative E")
        ELSE st

\* the lines the scan visits: every line of every layer (lines 64-65)
ScanLines == AllLines(layers)

HState == [current_tool |-> current_tool, z_offset |-> z_offset,
           version |-> version, config |-> config, extruders |-> extruders,
           error |-> ""]

HNext == HStep(HState, ScanLines[hpos][1], ScanLines[hpos][2])

\* an iteration of the loop that completes
parse_header_line ==
    /\ pc = "parse_header"
    /\ hpos <= Len(ScanLines)
    /\ HNext.error = ""
    /\ current_tool' = HNext.current_tool
    /\ z_offset' = HNext.z_offset
    /\ version' = HNext.version
    /\ config' = HNext.config
    /\ extruders' = HNext.extruders
    /\ hpos' = hpos + 1
    /\ UNCHANGED <<pc, error, ParseVars, layers, tools, FilterVars, OutputVars>>

\* an iteration that raises: the exception leaves parse_header and process
parse_header_raise ==
    /\ pc = "parse_header"
    /\ hpos <= Len(ScanLines)
    /\ HNext.error # ""
    /\ error' = HNext.error
    /\ pc' = "aborted"
    /\ UNCHANGED <<ParseVars, layers, tools, HeaderVars, FilterVars, OutputVars>>

\* after the loop (lines 150-156)
parse_header_end ==
    /\ pc = "parse_header"
    /\ hpos > Len(ScanLines)
    /\ extruders' = [t \in DOMAIN extruders |->
                        [extruders[t] EXCEPT !.z_offset = z_offset]]
    /\ pc' = "parse_print_settings"
    /\ UNCHANGED <<error, ParseVars, layers, tools, hpos, current_tool,
                   z_offset, version, config, FilterVars, OutputVars>>

(***************************************************************************)
(* The rest of process.                                                    *)
(***************************************************************************)
\* Layer.delete_line, positions counted from 1
delete_line(layer, p) ==
    [layer EXCEPT !.lines =
        [i \in 1..(Len(layer.lines) - 1) |->
            IF i < p THEN layer.lines[i] ELSE layer.lines[i + 1]]]

\* the lines the loop of parse_print_settings stops at (line 166), given the
\* number of lines up to and including start_gcode_end
DeletedLines(layer, sge) ==
    {p \in (sge + 1)..Len(layer.lines) :
        layer.lines[p][1] # "" /\ is_tool_change(layer.lines[p][1]) = 0}

\* lines 163-168
DeleteFirstT0(layer, sge) ==
    IF DeletedLines(layer, sge) = {} THEN layer
    ELSE delete_line(layer, CHOOSE p \in DeletedLines(layer, sge) :
                               \A q \in DeletedLines(layer, sge) : p <= q)

\* parse_print_settings: the base class settles the tools and the end of
\* the start g-code of the first layer (line 161), then lines 163-168
parse_print_settings ==
    /\ pc = "parse_print_settings"
    /\ \E n \in 0..MaxTools : tools' = n
    /\ \E sge \in 0..Len(layers[1].lines) :
         layers' = [layers EXCEPT ![1] =
                       DeleteFirstT0([layers[1] EXCEPT !.start_gcode_end = sge],
                                     sge)]
    /\ pc' = "filter_layers"
    /\ UNCHANGED <<error, ParseVars, HeaderVars, FilterVars, OutputVars>>

PlaceholderFeedrate == 5    \* 0.05, in hundredths

\* parse_perimeter_rates (lines 298-300)
parse_perimeter_rates ==
    /\ pc = "parse_perimeter_rates"
    /\ layers' = [i \in 1..Len(layers) |->
                    [layers[i] EXCEPT
                        !.outer_perimeter_speed = config["outer_perimeter_speed"],
                        !.outer_perimeter_feedrate = PlaceholderFeedrate]]
    /\ pc' = "tool_check"
    /\ UNCHANGED <<error, ParseVars, tools, HeaderVars, FilterVars, OutputVars>>

\* MultiTool with >= 1 for > 1
MultiTool_atLeastOne(n) == n >= 1

\* if len(self.tools) > 1
MultiTool(n) == n > 1

\* find_tower_position, add_switch_raft, add_tool_change_gcode (lines 46-48)
add_tool_change_gcode ==
    /\ pc = "tool_check"
    /\ MultiTool(tools)
    /\ tower_added' = TRUE
    /\ pc' = "save_new_file"
    /\ UNCHANGED <<error, ParseVars, layers, tools, HeaderVars, FilterVars, saved>>

\* the else branch (line 50)
skip_tool_change_gcode ==
    /\ pc = "tool_check"
    /\ ~MultiTool(tools)
    /\ pc' = "save_new_file"
    /\ UNCHANGED <<error, ParseVars, layers, tools, HeaderVars, FilterVars,
                   OutputVars>>

\* save_new_file (line 51)
save_new_file ==
    /\ pc = "save_new_file"
    /\ saved' = TRUE
    /\ pc' = "done"
    /\ UNCHANGED <<error, ParseVars, layers, tools, HeaderVars, FilterVars,
                   tower_added>>

(***************************************************************************)
(* Specification of process.                                               *)
(***************************************************************************)
ProcAlphabet ==
    {CmdLine("G1"),
     CmdLine("T0"),
     CmdLine("T1"),
     Marker(1, 3),
     MarkerDecimal(1, 3),
     Annot("version", 1, 6, TRUE),
     Annot("version", 0, 0, FALSE),
     Annot("bed_size_x_mm", 0, 5, TRUE),
     Annot("travel_speed_mm_per_s", 0, 0, FALSE),
     Annot("num_extruders", 0, 2, TRUE),
     Annot("Material Settings for Extruder", 1, 0, TRUE),
     Annot("Material Settings for Extruder", 2, 0, TRUE),
     Annot("Material Settings for Extruder", 2, 0, FALSE),
     Annot("destring_speed_mm_per_s", 0, 3, TRUE),
     Annot("firmware_type", 0, 1, TRUE),
     Annot("firmware_type", 0, 0, TRUE)}

Init ==
    /\ pc = "parse_layers"
    /\ \E n \in 0..MaxHdrLines : \E ls \in [1..n -> ProcAlphabet] : Constructed(ls)

Next ==
    \/ parse_layers_line \/ parse_layers_raise \/ parse_layers_end
    \/ parse_header_line \/ parse_header_raise \/ parse_header_end
    \/ parse_print_settings
    \/ fl_group \/ fl_scan \/ fl_scan_end \/ fl_tag \/ fl_pack
    \/ parse_perimeter_rates
    \/ add_tool_change_gcode \/ skip_tool_change_gcode
    \/ save_new_file

Spec == Init /\ [][Next]_vars

(***************************************************************************)
(* Specification of parse_layers on its own.                               *)
(***************************************************************************)
SegAlphabet ==
    {CmdLine("G1"), CmdLine("T1"), Annot("text", 0, 0, TRUE), MarkerDecimal(1, 3)}
    \cup {Marker(z, 3) : z \in 1..MaxZ}

InitSeg ==
    /\ pc = "parse_layers"
    /\ \E n \in 0..MaxLines : \E ls \in [1..n -> SegAlphabet] : Constructed(ls)

NextSeg == parse_layers_line \/ parse_layers_raise \/ parse_layers_end

SpecSeg == InitSeg /\ [][NextSeg]_vars

(***************************************************************************)
(* Specification of filter_layers on its own, on the layers parse_layers   *)
(* makes of an input in which every layer is a marker and one command.     *)
(***************************************************************************)
\* the input lines of one layer at height z, with or without a tool change
LayerLines(z, tc) == <<Marker(z, 3), CmdLine(IF tc THEN "T1" ELSE "G1")>>

\* a layer sequence given by the <<height, tool change>> of each layer
ShapeLines(shape) ==
    ConcatAll([i \in 1..Len(shape) |-> LayerLines(shape[i][1], shape[i][2])])

\* a layer sequence in print order: heights 1..Len(bs), every height with the
\* same number of layers (one per printed object)
PrintOrderShape(bs) ==
    ConcatAll([h \in 1..Len(bs) |-> [k \in 1..Len(bs[h]) |-> <<h, bs[h][k]>>]])

\* the state in which filter_layers is entered for the layers of a shape
AllocEntered(shape) ==
    /\ \E ls \in {ShapeLines(shape)} : \E parsed \in {ParseLayers(ls)} :
           /\ layers = parsed.layers
           /\ current_layer = parsed.current_layer
           /\ layer_num = parsed.layer_num
    /\ lines = <<>>
    /\ pos = 1
    /\ error = ""
    /\ tools = 0
    /\ hpos = 1
    /\ current_tool = None
    /\ z_offset = 0
    /\ version = <<>>
    /\ config = [f \in GlobalFields |-> None]
    /\ extruders = <<>>
    /\ layer_data = <<>>
    /\ bucket_slots = <<>>
    /\ zs = <<>>
    /\ zi = 1
    /\ slots = None
    /\ count = None
    /\ max_slots = None
    /\ filtered_layers = <<>>
    /\ tower_added = FALSE
    /\ saved = FALSE

\* the inputs: up to MaxFree layers with free heights, or up to MaxHeights
\* heights in print order with up to MaxPerHeight layers each
InitAlloc ==
    /\ pc = "filter_layers"
    /\ \/ \E n \in 0..MaxFree :
            \E shape \in [1..n -> (1..MaxZ) \X BOOLEAN] : AllocEntered(shape)
       \/ \E h \in 1..MaxHeights, k \in 1..MaxPerHeight :
            \E bs \in [1..h -> [1..k -> BOOLEAN]] :
                AllocEntered(PrintOrderShape(bs))

NextAlloc == fl_group \/ fl_scan \/ fl_scan_end \/ fl_tag \/ fl_pack

SpecAlloc == InitAlloc /\ [][NextAlloc]_vars

(***************************************************************************)
(* Properties of parse_layers (SpecSeg).                                   *)
(***************************************************************************)
ParseDone == pc = "parse_header"

\* C1: after parse_layers has finished, the lines of the layers, concatenated
\* in layer order, are exactly the input lines in their original order
C1_Completeness ==
    ParseDone =>
        AllLines(layers) = [i \in 1..Len(lines) |-> read_gcode_line(lines[i])]

C1_Witness ==
    /\ ParseDone
    /\ Len(layers) >= 3
    /\ \E i \in 1..Len(layers) : Len(layers[i].lines) >= 2

\* the positions of the input lines that are layer-start markers
MarkerPositions ==
    {i \in 1..Len(lines) :
        LET comment == read_gcode_line(lines[i])[2]
        IN  comment.key # "" /\ LayerStartMatches(comment)}

FirstMarkerPosition ==
    CHOOSE i \in MarkerPositions : \A j \in MarkerPositions : i <= j

MarkerStepReady ==
    /\ pc = "parse_layers"
    /\ pos <= Len(lines)
    /\ pos \in MarkerPositions

\* C12: reading a marker line puts that line into the layer it announces:
\* the first marker goes to layer 1 after the lines read so far, a later
\* marker is the first line of a new layer; in both cases the layer has the
\* height and thickness written on the marker (n tenths per 0.n), and the
\* layers closed before are left as they are
C12_MarkerOwnership ==
    [][MarkerStepReady =>
          LET comment == read_gcode_line(lines[pos])[2]
              entry == read_gcode_line(lines[pos])
          IN  /\ pc' = "parse_layers"
              /\ current_layer'.z = 10 * comment.num
              /\ current_layer'.height = comment.val
              /\ IF Cardinality({i \in MarkerPositions : i < pos}) = 0
                 THEN /\ current_layer'.num = 1
                      /\ current_layer'.lines = Append(current_layer.lines, entry)
                      /\ layers' = layers
                 ELSE /\ current_layer'.lines = <<entry>>
                      /\ layers' = Append(layers, current_layer)]_vars

(***************************************************************************)
(* Properties of filter_layers (SpecAlloc).                                *)
(***************************************************************************)
FilterDone == pc = "parse_perimeter_rates"

Actions == {ACT_SWITCH, ACT_INFILL, ACT_PASS}

SameBucket(i, j) == layers[i].z = layers[j].z

\* C2: after filter_layers a layer is tagged SWITCH exactly if it has a tool
\* change, and a bucket holds an INFILL layer only if all its tool-change
\* layers are tagged SWITCH, wherever they stand in the bucket
C2_SlotPriority ==
    FilterDone =>
        \A i \in 1..Len(layers) :
            /\ layers[i].action = ACT_SWITCH <=> has_tool_changes(layers[i])
            /\ layers[i].action = ACT_INFILL =>
                 \A j \in 1..Len(layers) :
                     (SameBucket(i, j) /\ has_tool_changes(layers[j]))
                        => layers[j].action = ACT_SWITCH

\* an INFILL layer stands before a SWITCH layer of its bucket
C2_Witness ==
    /\ FilterDone
    /\ \E i, j \in 1..Len(layers) :
         /\ i < j
         /\ SameBucket(i, j)
         /\ layers[i].action = ACT_INFILL
         /\ layers[j].action = ACT_SWITCH

\* C3: after filter_layers every layer has one of the three actions, and a
\* layer tagged SWITCH or INFILL is in a bucket of recorded capacity >= 1
C3_ActionCoverage ==
    FilterDone =>
        \A i \in 1..Len(layers) :
            /\ layers[i].action \in Actions
            /\ layers[i].action \in {ACT_SWITCH, ACT_INFILL} =>
                 /\ layers[i].z \in DOMAIN bucket_slots
                 /\ bucket_slots[layers[i].z] >= 1

C3_Witness ==
    /\ FilterDone
    /\ \A a \in Actions : \E i \in 1..Len(layers) : layers[i].action = a

\* the slots value in effect when the j-th height of the scan is reached
SlotsBefore(j) == IF j = 1 THEN InitialSlots ELSE bucket_slots[zs[j - 1]]

\* required > slots at the moment the j-th height of the scan is visited
DeficitAtVisit(j) == lrs(layers, layer_data[zs[j]]) > SlotsBefore(j)

\* the j-th height of the scan changed slots
RaisedAt(j) == bucket_slots[zs[j]] # SlotsBefore(j)

\* C4: the slots values recorded during the descending scan, in visiting
\* order, never decrease
C4_MonotonicSlots ==
    pc = "fl_scan" =>
        \A j, k \in 1..(zi - 1) :
            j < k => bucket_slots[zs[j]] <= bucket_slots[zs[k]]

\* slots was raised and a later height needs fewer slots than it records
C4_Witness ==
    /\ pc = "fl_scan"
    /\ \E j, k \in 1..(zi - 1) :
         /\ j < k
         /\ RaisedAt(j)
         /\ lrs(layers, layer_data[zs[k]]) < bucket_slots[zs[k]]

ScanStepTaken == pc = "fl_scan" /\ zi <= Len(zs)

\* C5 as stated: slots changes only at a height that is the last of three
\* consecutive heights with a deficit
C5_ConsecutiveDeficits ==
    [][(ScanStepTaken /\ slots' # slots) =>
          (zi >= 3 /\ \A j \in (zi - 2)..zi : DeficitAtVisit(j))]_vars

\* the last height before the i-th at which slots changed, 0 if none
LastRaise(i) ==
    LET R == {j \in 1..(i - 1) : RaisedAt(j)}
    IN  IF R = {} THEN 0 ELSE CHOOSE j \in R : \A k \in R : k <= j

\* C5 as amended: slots changes only at a height with a deficit that is the
\* third height with a deficit since the scan began or since slots last
\* changed, whether or not heights without deficit lie in between
C5_ThirdDeficit ==
    [][(ScanStepTaken /\ slots' # slots) =>
          /\ DeficitAtVisit(zi)
          /\ slots' > slots
          /\ Cardinality({j \in (LastRaise(zi) + 1)..zi : DeficitAtVisit(j)})
                = StallThreshold]_vars

\* slots was raised although a height without deficit was visited before
C5_Witness ==
    /\ pc = "fl_scan"
    /\ \E i, j \in 1..(zi - 1) :
         /\ i < j
         /\ ~DeficitAtVisit(i)
         /\ RaisedAt(j)
         /\ LastRaise(j) = 0

C13_ScanRule ==
    [][/\ pc = "filter_layers" => (slots' = 1 /\ count' = 0)
       /\ ScanStepTaken =>
            LET required == lrs(layers, layer_data[zs[zi]])
                stalled == IF required > slots THEN count + 1 ELSE count
            IN  /\ IF stalled = 3
                   THEN slots' = required /\ required > slots /\ count' = 0
                   ELSE slots' = slots /\ count' = stalled
                /\ stalled <= 3
                /\ bucket_slots'[zs[zi]] = slots'
                /\ \A h \in DOMAIN bucket_slots :
                      h \in DOMAIN bucket_slots' /\ bucket_slots'[h] = bucket_slots[h]]_vars

\* slots was raised at a height, count is back at 0 and a later height has
\* been recorded with the raised value
C13_Witness ==
    /\ pc = "fl_scan"
    /\ count = 0
    /\ \E j \in 1..(zi - 2) :
         /\ RaisedAt(j)
         /\ bucket_slots[zs[zi - 1]] = bucket_slots[zs[j]]

\* the tool-change layers and the other layers of the bucket of height z
SwitchLayers(z) ==
    SelectSeq(layer_data[z], LAMBDA i : has_tool_changes(layers[i]))

OtherLayers(z) ==
    SelectSeq(layer_data[z], LAMBDA i : ~has_tool_changes(layers[i]))

\* the slots a bucket of capacity c leaves to its layers without tool change
FreeSlots(z) ==
    LET c == bucket_slots[z]
        r == Len(SwitchLayers(z))
        n == Len(OtherLayers(z))
        free == IF c - r > 0 THEN c - r ELSE 0
    IN  IF n < free THEN n ELSE free

\* C14: after filter_layers, in every bucket the first
\* min(n, max(c - r, 0)) layers without tool change, in insertion order,
\* are tagged INFILL and the other layers without tool change PASS
C14_InfillThenPass ==
    FilterDone =>
        \A z \in DOMAIN layer_data :
            \A k \in 1..Len(OtherLayers(z)) :
                layers[OtherLayers(z)[k]].action =
                    IF k <= FreeSlots(z) THEN ACT_INFILL ELSE ACT_PASS

\* a bucket without tool change holds more layers than its capacity: INFILL
\* up to the capacity, then PASS
C14_Witness ==
    /\ FilterDone
    /\ \E z \in DOMAIN layer_data :
         /\ Len(SwitchLayers(z)) = 0
         /\ Len(OtherLayers(z)) > bucket_slots[z]
         /\ bucket_slots[z] > 0
         /\ layers[OtherLayers(z)[1]].action = ACT_INFILL
         /\ layers[OtherLayers(z)[Len(OtherLayers(z))]].action = ACT_PASS

\* the layers of the bucket of height z that consume a slot
SlotConsumers(z) ==
    {k \in 1..Len(layer_data[z]) :
        layers[layer_data[z][k]].action \in {ACT_SWITCH, ACT_INFILL}}

\* C15 as stated: in every bucket the SWITCH and INFILL layers together are
\* at most the recorded capacity, which is the tower_slots of its layers
C15_WithinCapacity ==
    FilterDone =>
        \A z \in DOMAIN layer_data :
            \A k \in 1..Len(layer_data[z]) :
                Cardinality(SlotConsumers(z)) <= layers[layer_data[z][k]].tower_slots

\* C15 as amended: in every bucket the SWITCH and INFILL layers together
\* are at most the larger of the recorded capacity and the number of
\* tool-change layers, and they exceed the capacity only in a bucket
\* without INFILL layer
C15_InfillWithinCapacity ==
    FilterDone =>
        \A z \in DOMAIN layer_data :
            LET c == bucket_slots[z]
                r == Len(SwitchLayers(z))
                used == Cardinality(SlotConsumers(z))
            IN  /\ used <= (IF r > c THEN r ELSE c)
                /\ used > c <=> r > c
                /\ used > c =>
                     \A k \in 1..Len(layer_data[z]) :
                         layers[layer_data[z][k]].action # ACT_INFILL

\* a bucket with more tool-change layers than capacity, and a layer without
\* tool change
C15_Witness ==
    /\ FilterDone
    /\ \E z \in DOMAIN layer_data :
         /\ Len(SwitchLayers(z)) > bucket_slots[z]
         /\ Len(OtherLayers(z)) > 0

\* the largest capacity recorded for a height
MaxCapacity ==
    CHOOSE c \in {bucket_slots[z] : z \in DOMAIN bucket_slots} :
        \A z \in DOMAIN bucket_slots : bucket_slots[z] <= c

\* C16: after filter_layers max_slots is the final slots value and the
\* largest capacity recorded, and every layer's tower_slots is the capacity
\* recorded for its height, hence at most max_slots
C16_MaxSlots ==
    FilterDone =>
        /\ max_slots = slots
        /\ max_slots = MaxCapacity
        /\ \A i \in 1..Len(layers) :
              /\ layers[i].tower_slots = bucket_slots[layers[i].z]
              /\ layers[i].tower_slots <= max_slots

\* slots was raised during the scan: a layer without tool change has a
\* capacity below max_slots
C16_Witness ==
    /\ FilterDone
    /\ max_slots > InitialSlots
    /\ \E i \in 1..Len(layers) :
         ~has_tool_changes(layers[i]) /\ layers[i].tower_slots < max_slots

\* the heights tagged so far
TaggedHeights == IF pc = "fl_tag" THEN {zs[j] : j \in 1..(zi - 1)} ELSE {}

\* C17: every recorded capacity is at least 1, so the tagging loop skips no
\* bucket: every layer of a height it has passed has an action and a
\* tower_slots of at least 1
C17_NoSkippedBucket ==
    /\ \A z \in DOMAIN bucket_slots : bucket_slots[z] >= 1
    /\ \A i \in 1..Len(layers) :
          layers[i].z \in TaggedHeights =>
              layers[i].action # ACT_UNSET /\ layers[i].tower_slots >= 1

\* the tagging loop has passed a height that requires no slot at all
C17_Witness ==
    /\ pc = "fl_tag"
    /\ \E z \in TaggedHeights :
         /\ Len(SwitchLayers(z)) = 0
         /\ \A k \in 1..Len(layer_data[z]) :
               layers[layer_data[z][k]].action = ACT_INFILL

(***************************************************************************)
(* Properties of process and of the header pass (Spec).                    *)
(***************************************************************************)
\* an annotation-only input line with the firmware flag and a value other
\* than the accepted "1"
BadFirmwareLine(l) == l.cmd = "" /\ l.key = "firmware_type" /\ l.val # 1

HasBadFirmware == \E i \in 1..Len(lines) : BadFirmwareLine(lines[i])

\* something filter_layers produces exists
AllocationOutput ==
    \/ max_slots # None
    \/ Len(filtered_layers) > 0
    \/ \E i \in 1..Len(layers) :
          layers[i].action # ACT_UNSET \/ layers[i].tower_slots # 0

AfterHeader ==
    pc \in {"parse_print_settings", "filter_layers", "fl_scan", "fl_tag",
            "parse_perimeter_rates", "tool_check", "save_new_file", "done"}

\* C7: with a firmware flag line of another value than the accepted one the
\* run never gets past the header pass (no allocation output, no saved file),
\* and the header pass raises the extrusion-mode error only for such a line
C7_ExtrusionModeAbort ==
    /\ HasBadFirmware => (~AfterHeader /\ ~AllocationOutput /\ ~saved)
    /\ (pc = "aborted" /\ error = "ValueError: relative E") => HasBadFirmware

\* the header pass raised the extrusion-mode error after scanning other lines
C7_Witness ==
    /\ pc = "aborted"
    /\ error = "ValueError: relative E"
    /\ hpos > 1
    /\ ~AllocationOutput /\ ~saved

\* C8 as stated: with at most one tool filter_layers is never invoked
C8_AllocatorNeverInvoked ==
    tools <= 1 => (~AllocationOutput /\ pc \notin {"fl_scan", "fl_tag"})

\* C8 as amended: with at most one tool process still runs filter_layers
\* (max_slots is set, every layer has an action and tower_slots) and skips
\* only the tower position, raft and tool-change g-code additions
C8_OnlyAdditionsSkipped ==
    (pc \in {"save_new_file", "done"} /\ tools <= 1) =>
        /\ max_slots # None
        /\ Len(filtered_layers) = Len(layers)
        /\ \A i \in 1..Len(layers) :
              layers[i].action \in Actions /\ layers[i].tower_slots >= 1
        /\ ~tower_added

C8_Witness == pc = "done" /\ tools <= 1 /\ saved /\ max_slots # None

\* the line the header pass is about to scan
ScanStepReady == pc = "parse_header" /\ hpos <= Len(ScanLines)
ScanCmd == ScanLines[hpos][1]
ScanComment == ScanLines[hpos][2]

\* an annotation-only line whose value does not convert to a number
MalformedValueLine ==
    /\ ScanCmd = ""
    /\ ~ScanComment.ok
    /\ \/ ScanComment.key \in {"version", "bed_offset_z_mm", "num_extruders"}
       \/ IsGlobalKey(ScanComment.key)
       \/ IsToolKey(ScanComment.key) /\ ToolKey(ScanComment.key)[4]

\* C9: a line with a malformed value does not abort the header pass: the
\* scan moves on to the next line and every field keeps its value
C9_MalformedValueTolerated ==
    [][(ScanStepReady /\ MalformedValueLine) =>
          /\ pc' = "parse_header"
          /\ hpos' = hpos + 1
          /\ UNCHANGED <<version, config, z_offset, extruders>>]_vars

\* the tool of the last material block line scanned before line h, None if
\* there is none
EstablishedTool(h) ==
    LET B == {i \in 1..(h - 1) :
                 /\ ScanLines[i][1] = ""
                 /\ ScanLines[i][2].key = "Material Settings for Extruder"}
    IN  IF B = {} THEN None
        ELSE ScanLines[CHOOSE i \in B : \A k \in B : k <= i][2].num - 1

\* C10: a per-tool setting line is ignored while no material block line has
\* been scanned, and otherwise sets the field of the Extruder of the tool of
\* the last material block line, whichever tool that is
C10_ToolScoping ==
    [][(/\ ScanStepReady
        /\ ScanCmd = ""
        /\ IsToolKey(ScanComment.key)
        /\ ScanComment.ok) =>
          IF EstablishedTool(hpos) = None
          THEN extruders' = extruders /\ pc' = "parse_header"
          ELSE EstablishedTool(hpos) \in DOMAIN extruders =>
                 extruders'[EstablishedTool(hpos)][ToolKey(ScanComment.key)[2]]
                    = ScanComment.val * ToolKey(ScanComment.key)[3]]_vars

\* the positions of the tool-change commands of the first layer that lie
\* after the end of the start g-code, sge lines into the layer
ToolChangesAfter(sge) ==
    {p \in (sge + 1)..Len(layers[1].lines) :
        /\ layers[1].lines[p][1] # ""
        /\ is_tool_change(layers[1].lines[p][1]) # None}

FirstToolChangeAfter(sge) ==
    CHOOSE p \in ToolChangesAfter(sge) : \A q \in ToolChangesAfter(sge) : p <= q

\* C18: parse_print_settings deletes the first tool-change command of the
\* first layer after the end of the start g-code if that command selects
\* tool 0, and otherwise deletes nothing; the other layers keep their lines
C18_FirstToolChangeOnly ==
    [][pc = "parse_print_settings" =>
          LET sge == layers'[1].start_gcode_end
          IN  /\ \A i \in 2..Len(layers) : layers'[i] = layers[i]
              /\ Len(layers') = Len(layers)
              /\ IF /\ ToolChangesAfter(sge) # {}
                    /\ is_tool_change(
                          layers[1].lines[FirstToolChangeAfter(sge)][1]) = 0
                 THEN layers'[1].lines =
                          delete_line(layers[1], FirstToolChangeAfter(sge)).lines
                 ELSE layers'[1].lines = layers[1].lines]_vars

====
